---------------------------- MODULE Spec2Model ----------------------------
(***************************************************************************)
(* Linear uncertainty propagation (src/errorcalc.py, class Error) as a     *)
(* state machine: one engine instance, the caller's measurement mapping,   *)
(* and the calls made on the engine.                                       *)
(*                                                                         *)
(* Representation.                                                         *)
(*  - A Python str is a sequence of tokens.  Every digit, "." and "_" is a *)
(*    token of its own, so str.split("_") and str.replace(numeral, ...)    *)
(*    act on it as they act on the characters; the other tokens (LaTeX     *)
(*    commands, letters, units) hold none of these characters.             *)
(*  - A dict is the sequence of its <<key, value>> items in insertion      *)
(*    order.                                                               *)
(*  - A number is [py, t]: its Python type ("int" or "float") and its      *)
(*    value in tenths.  Sums of products are exact decimal arithmetic.     *)
(*  - A sympy expression is a polynomial: a set of monomials [c, p] with   *)
(*    nonzero integer coefficient c and exponents p[name], pairwise        *)
(*    different p (sympy's automatic collection of like terms).            *)
(***************************************************************************)
EXTENDS Integers, Sequences, FiniteSets, TLC

(***************************************************************************)
(* Bounds of the model.                                                    *)
(***************************************************************************)
\* Measurement points are the whole numbers 0..MaxPoint.
MaxPoint == 2

(***************************************************************************)
(* Names.                                                                  *)
(***************************************************************************)
N_a    == <<"a">>
N_b    == <<"b">>
N_x    == <<"x">>
N_x_1  == <<"x", "_", "1">>
N_k    == <<"k">>
N_rest == <<"rest">>
Names  == {N_a, N_b, N_x, N_x_1, N_k, N_rest}

(***************************************************************************)
(* Python built-ins used by the engine.                                    *)
(***************************************************************************)
\* "delta_" + name
DeltaName(name) == <<"delta", "_">> \o name

\* s.split(sep) for a one-character separator: the segments between the
\* occurrences of sep, in order.
RECURSIVE Split(_, _)
Split(s, sep) ==
    IF \A i \in 1..Len(s) : s[i] # sep
    THEN <<s>>
    ELSE LET i == CHOOSE j \in 1..Len(s) :
                     s[j] = sep /\ \A h \in 1..(j - 1) : s[h] # sep
         IN  <<SubSeq(s, 1, i - 1)>> \o Split(SubSeq(s, i + 1, Len(s)), sep)

\* key in d
HasKey(d, k) == \E i \in 1..Len(d) : d[i][1] = k

\* d[k], defined when HasKey(d, k)
DictGet(d, k) == d[CHOOSE i \in 1..Len(d) : d[i][1] = k][2]

\* d[k] = v: an existing key keeps its place, a new key goes last.
DictSet(d, k, v) ==
    IF HasKey(d, k)
    THEN [i \in 1..Len(d) |-> IF d[i][1] = k THEN <<k, v>> ELSE d[i]]
    ELSE Append(d, <<k, v>>)

\* list(d.keys())
DictKeys(d) == [i \in 1..Len(d) |-> d[i][1]]

(***************************************************************************)
(* sympy expressions (polynomials).                                        *)
(***************************************************************************)
NoPowers == [n \in Names |-> 0]

\* sym.Symbol(name)
Symbol(name) == {[c |-> 1, p |-> [NoPowers EXCEPT ![name] = 1]]}

\* sympify(n) for a Python int
Number(n) == IF n = 0 THEN {} ELSE {[c |-> n, p |-> NoPowers]}

Coef(e, q) == IF \E m \in e : m.p = q THEN (CHOOSE m \in e : m.p = q).c ELSE 0

Collect(powers, coef(_)) ==
    {[c |-> coef(q), p |-> q] : q \in {r \in powers : coef(r) # 0}}

\* e1 + e2
PolyAdd(e1, e2) ==
    LET sum(q) == Coef(e1, q) + Coef(e2, q)
    IN  Collect({m.p : m \in e1 \cup e2}, sum)

\* -e
PolyNeg(e) == {[c |-> 0 - m.c, p |-> m.p] : m \in e}

\* The sum of the coefficient products of a set of monomial pairs.
RECURSIVE SumProducts(_)
SumProducts(S) ==
    IF S = {} THEN 0
    ELSE LET pr == CHOOSE t \in S : TRUE
         IN  pr[1].c * pr[2].c + SumProducts(S \ {pr})

\* e1 * e2
PolyMul(e1, e2) ==
    LET prod(m1, m2) == [n \in Names |-> m1.p[n] + m2.p[n]]
        pairs        == e1 \X e2
        coef(q)      ==
            SumProducts({pr \in pairs : prod(pr[1], pr[2]) = q})
    IN  Collect({prod(pr[1], pr[2]) : pr \in pairs}, coef)

\* e ** n for a Python int n >= 0
RECURSIVE PolyPow(_, _)
PolyPow(e, n) == IF n = 0 THEN Number(1) ELSE PolyMul(e, PolyPow(e, n - 1))

\* e.diff(Symbol(name)): the power rule on every monomial; the monomials
\* that do not hold the symbol differentiate to 0 and drop out.
Diff(e, name) ==
    {[c |-> m.c * m.p[name], p |-> [m.p EXCEPT ![name] = @ - 1]] :
        m \in {r \in e : r.p[name] > 0}}

\* The free symbols of e.
FreeSymbols(e) == {n \in Names : \E m \in e : m.p[n] > 0}

(***************************************************************************)
(* Formulas: the callables handed to the constructor.  A parameter is      *)
(* [name, kind] with kind "pos" (plain positional), "default" (positional  *)
(* with a default value), "varargs" ( *rest ), "kwonly" (keyword-only,     *)
(* required) or "kwdefault" (keyword-only with a default); dflt is the     *)
(* default value where there is one.  The body is an expression tree over  *)
(* the parameter names.                                                    *)
(***************************************************************************)
Par(name, kind, dflt) == [name |-> name, kind |-> kind, dflt |-> dflt]
Var(name) == [op |-> "var", name |-> name]
Num(n)    == [op |-> "num", n |-> n]
Add(l, r) == [op |-> "add", l |-> l, r |-> r]
Sub(l, r) == [op |-> "sub", l |-> l, r |-> r]
Mul(l, r) == [op |-> "mul", l |-> l, r |-> r]
Pow(l, n) == [op |-> "pow", l |-> l, n |-> n]

\* def my_function1(a, b): return a + a * b ** 3
my_function1 ==
    [params |-> <<Par(N_a, "pos", 0), Par(N_b, "pos", 0)>>,
     body   |-> Add(Var(N_a), Mul(Var(N_a), Pow(Var(N_b), 3)))]
\* def f(x): return x
f_identity ==
    [params |-> <<Par(N_x, "pos", 0)>>, body |-> Var(N_x)]
\* def f(a, b): return a * a            (b does not occur in the body)
f_unused ==
    [params |-> <<Par(N_a, "pos", 0), Par(N_b, "pos", 0)>>,
     body   |-> Mul(Var(N_a), Var(N_a))]
\* def f(a, b): return a * b - 3 * b
f_difference ==
    [params |-> <<Par(N_a, "pos", 0), Par(N_b, "pos", 0)>>,
     body   |-> Sub(Mul(Var(N_a), Var(N_b)), Mul(Num(3), Var(N_b)))]
\* def f(x_1): return x_1 * x_1
f_subscript ==
    [params |-> <<Par(N_x_1, "pos", 0)>>,
     body   |-> Mul(Var(N_x_1), Var(N_x_1))]
\* def f(x, x_1): return x * x          (x_1 does not occur in the body)
f_subscript_unused ==
    [params |-> <<Par(N_x, "pos", 0), Par(N_x_1, "pos", 0)>>,
     body   |-> Mul(Var(N_x), Var(N_x))]
\* def f(x, k=2): return x * k
f_default ==
    [params |-> <<Par(N_x, "pos", 0), Par(N_k, "default", 2)>>,
     body   |-> Mul(Var(N_x), Var(N_k))]
\* def f(a, *rest): return a * a
f_varargs ==
    [params |-> <<Par(N_a, "pos", 0), Par(N_rest, "varargs", 0)>>,
     body   |-> Mul(Var(N_a), Var(N_a))]
\* def f(a, *, k): return a * k
f_kwonly ==
    [params |-> <<Par(N_a, "pos", 0), Par(N_k, "kwonly", 0)>>,
     body   |-> Mul(Var(N_a), Var(N_k))]
\* def f(a, *, k=2): return a * k
f_kwdefault ==
    [params |-> <<Par(N_a, "pos", 0), Par(N_k, "kwdefault", 2)>>,
     body   |-> Mul(Var(N_a), Var(N_k))]

Formulas ==
    {my_function1, f_identity, f_unused, f_difference, f_subscript,
     f_subscript_unused, f_default, f_varargs, f_kwonly, f_kwdefault}

\* Every declared parameter name, in order.
ParamNames(func) == [i \in 1..Len(func.params) |-> func.params[i].name]

\* Every parameter is a plain positional name.
AllPlain(func) == \A i \in 1..Len(func.params) : func.params[i].kind = "pos"

\* The names occurring in an expression tree.
RECURSIVE BodyNames(_)
BodyNames(t) ==
    CASE t.op = "var" -> {t.name}
      [] t.op = "num" -> {}
      [] t.op = "pow" -> BodyNames(t.l)
      [] OTHER        -> BodyNames(t.l) \cup BodyNames(t.r)

\* inspect.getfullargspec(func).args: the names of the positional
\* parameters, with or without a default, in order; *rest and the
\* keyword-only parameters are reported in other fields, which the
\* constructor does not read.
RECURSIVE GetFullArgSpecArgs(_)
GetFullArgSpecArgs(params) ==
    IF params = <<>> THEN <<>>
    ELSE (IF Head(params).kind \in {"pos", "default"}
          THEN <<Head(params).name>> ELSE <<>>)
         \o GetFullArgSpecArgs(Tail(params))

\* The value of a Python arithmetic expression over sympy operands.
RECURSIVE PyEval(_, _)
PyEval(t, env) ==
    CASE t.op = "var" -> env[t.name]
      [] t.op = "num" -> Number(t.n)
      [] t.op = "add" -> PolyAdd(PyEval(t.l, env), PyEval(t.r, env))
      [] t.op = "sub" -> PolyAdd(PyEval(t.l, env), PolyNeg(PyEval(t.r, env)))
      [] t.op = "mul" -> PolyMul(PyEval(t.l, env), PyEval(t.r, env))
      [] t.op = "pow" -> PolyPow(PyEval(t.l, env), t.n)

\* func( *variables ) with one symbol per name of getfullargspec(func).args:
\* Python binds the symbols to the positional parameters, leaves *rest
\* empty, gives a keyword-only parameter its default, and raises TypeError
\* for a keyword-only parameter that has none.
CallRaises(func) ==
    \E i \in 1..Len(func.params) : func.params[i].kind = "kwonly"

CallFormula(func) ==
    LET bound(par) == IF par.kind \in {"pos", "default"}
                      THEN Symbol(par.name) ELSE Number(par.dflt)
        env == [n \in {func.params[i].name : i \in 1..Len(func.params)} |->
                   bound(CHOOSE par \in {func.params[i] :
                                            i \in 1..Len(func.params)} :
                             par.name = n)]
    IN  PyEval(func.body, env)

(***************************************************************************)
(* Numbers and measurement mappings.                                       *)
(***************************************************************************)
PyInt(n)   == [py |-> "int", t |-> 10 * n]
PyFloat(t) == [py |-> "float", t |-> t]

\* value[0] == 0.0
IsZero(v) == v.t = 0

\* int(value[0]) == float(value[0])
IsWhole(v) == v.t % 10 = 0

\* The integer a whole number stands for (the measurement points of the
\* model are whole numbers).
IntValue(v) == v.t \div 10

Volt   == <<"\\volt">>
NoUnit == <<>>

\* The uncertainties the caller supplies, in tenths: 0.0, 0.4 and 0.5.
DeltaTenths == {0, 4, 5}

\* The uncertainty of the mappings used where calls are compared: 0.4.
ComparedTenths == {4}

\* The unit the caller gives the i-th variable and its uncertainty.
UnitOf(i) == IF i = 1 THEN Volt ELSE NoUnit

\* The measurement mappings a caller may pass for the variables `names`:
\* each point entry and each uncertainty entry is there or not, the points
\* are the Python ints 0..MaxPoint, the uncertainties Python floats, and
\* the dict was filled either points first (as src/test_error.py does) or
\* in the opposite order.
Reverse(s) == [i \in 1..Len(s) |-> s[Len(s) + 1 - i]]

ForwardMappings(names, tenths) ==
    LET n      == Len(names)
        Absent == [here |-> FALSE, v |-> PyInt(0)]
        Points == {Absent} \cup {[here |-> TRUE, v |-> PyInt(k)] : k \in 0..MaxPoint}
        Deltas == {Absent} \cup {[here |-> TRUE, v |-> PyFloat(t)] : t \in tenths}
        Here(item) == item[3]
        Item(item) == <<item[1], item[2]>>
        Filled(pt, dl) ==
            [i \in 1..(2 * n) |->
                IF i <= n
                THEN <<names[i], <<pt[i].v, UnitOf(i)>>, pt[i].here>>
                ELSE <<DeltaName(names[i - n]), <<dl[i - n].v, UnitOf(i - n)>>,
                       dl[i - n].here>>]
        Dict(pt, dl) ==
            LET kept == SelectSeq(Filled(pt, dl), Here)
            IN  [i \in 1..Len(kept) |-> Item(kept[i])]
    IN  {Dict(pt, dl) : pt \in [1..n -> Points], dl \in [1..n -> Deltas]}

MappingsFor(names) ==
    LET Forward == ForwardMappings(names, DeltaTenths)
    IN  Forward \cup {Reverse(d) : d \in Forward}

\* The mappings used where calls are compared: filled points first, at
\* most one entry absent, every uncertainty 0.4.
ComparedMappingsFor(names) ==
    {d \in ForwardMappings(names, ComparedTenths) : Len(d) >= 2 * Len(names) - 1}

ArgLists == {GetFullArgSpecArgs(func.params) : func \in Formulas}

Mappings == [names \in ArgLists |-> MappingsFor(names)]

ComparedMappings == [names \in ArgLists |-> ComparedMappingsFor(names)]

\* Every declared variable has its point entry and its uncertainty entry.
Complete(vals, names) ==
    \A i \in 1..Len(names) :
        HasKey(vals, names[i]) /\ HasKey(vals, DeltaName(names[i]))

(***************************************************************************)
(* Numeric evaluation.                                                     *)
(***************************************************************************)
RECURSIVE IntPow(_, _)
IntPow(b, n) == IF n = 0 THEN 1 ELSE b * IntPow(b, n - 1)

Abs(k) == IF k < 0 THEN 0 - k ELSE k

\* expr.subs({k: v[0] for k, v in values.items()}): every symbol whose name
\* is a key of the mapping is replaced by that entry's number; a symbol
\* whose name is no key stays in the expression.
Subs(e, vals) ==
    LET bound(n)    == HasKey(vals, n)
        residual(m) == [n \in Names |-> IF bound(n) THEN 0 ELSE m.p[n]]
        RECURSIVE Factor(_, _)
        Factor(m, S) ==
            IF S = {} THEN m.c
            ELSE LET n == CHOOSE k \in S : TRUE
                 IN  IntPow(IntValue(DictGet(vals, n)[1]), m.p[n])
                        * Factor(m, S \ {n})
        value(m) == Factor(m, {n \in Names : bound(n) /\ m.p[n] > 0})
        RECURSIVE Total(_)
        Total(S) ==
            IF S = {} THEN 0
            ELSE LET m == CHOOSE k \in S : TRUE IN value(m) + Total(S \ {m})
        coef(q) == Total({m \in e : residual(m) = q})
    IN  Collect({residual(m) : m \in e}, coef)

\* Outcomes of a call: what it returned or raised.
NoOut           == [kind |-> "none",      num |-> 0, rest |-> <<>>, key |-> <<>>, text |-> <<>>]
Returned(n, r)  == [kind |-> "number",    num |-> n, rest |-> r,    key |-> <<>>, text |-> <<>>]
KeyError(k)     == [kind |-> "KeyError",  num |-> 0, rest |-> <<>>, key |-> k,    text |-> <<>>]
TypeError       == [kind |-> "TypeError", num |-> 0, rest |-> <<>>, key |-> <<>>, text |-> <<>>]
Text(t)         == [kind |-> "text",      num |-> 0, rest |-> <<>>, key |-> <<>>, text |-> t]

\* delta_name.split("_")[1]: the key under which the aggregate looks the
\* derivative up.
DerivativeKey(delta_name) == Split(delta_name, "_")[2]

\* sum([values[delta_name][0]
\*        * abs(self.derivatives[delta_name.split("_")[1]].subs(...))
\*      for delta_name in self.error_symbols])
\* The terms are built in the order of error_symbols, so the first lookup
\* that fails raises.  The sum is a number, in tenths, plus the terms that
\* still hold a symbol (`rest`): with rest # <<>> the returned object is a
\* sympy expression, not a number.
Aggregate(derivs, errsyms, vals) ==
    LET n       == Len(errsyms)
        raises(i) == \/ ~HasKey(vals, errsyms[i])
                     \/ ~HasKey(derivs, DerivativeKey(errsyms[i]))
        error(i)  == IF ~HasKey(vals, errsyms[i])
                     THEN KeyError(errsyms[i])
                     ELSE KeyError(DerivativeKey(errsyms[i]))
        unc(i)    == DictGet(vals, errsyms[i])[1]
        at(i)     == Subs(DictGet(derivs, DerivativeKey(errsyms[i])), vals)
        open(i)   == FreeSymbols(at(i)) # {} /\ ~IsZero(unc(i))
        term(i)   == IF FreeSymbols(at(i)) # {} THEN 0
                     ELSE unc(i).t * Abs(Coef(at(i), NoPowers))
        RECURSIVE Sum(_)
        Sum(i)    == IF i = 0 THEN 0 ELSE Sum(i - 1) + term(i)
        RECURSIVE Rest(_)
        Rest(i)   == IF i = 0 THEN <<>>
                     ELSE Rest(i - 1) \o (IF open(i) THEN <<<<unc(i), at(i)>>>> ELSE <<>>)
    IN  IF \E i \in 1..n : raises(i)
        THEN error(CHOOSE i \in 1..n : raises(i) /\ \A j \in 1..(i - 1) : ~raises(j))
        ELSE Returned(Sum(n), Rest(n))

(***************************************************************************)
(* Text.                                                                   *)
(***************************************************************************)
DigitTokens == <<"0", "1", "2", "3", "4", "5", "6", "7", "8", "9">>

\* The decimal digits of n >= 0.
RECURSIVE Digits(_)
Digits(n) ==
    IF n < 10 THEN <<DigitTokens[n + 1]>>
    ELSE Digits(n \div 10) \o <<DigitTokens[(n % 10) + 1]>>

\* f"{value[0]}", f"{int(value[0])}" and f"{float(value[0])}" for a number
\* >= 0 with at most one decimal: "2" for the int 2, "2.0" and "0.4" for
\* the floats.
PyStr(v) ==
    IF v.py = "int" THEN Digits(v.t \div 10)
    ELSE Digits(v.t \div 10) \o <<".">> \o Digits(v.t % 10)

IntStr(v)   == Digits(v.t \div 10)
FloatStr(v) == Digits(v.t \div 10) \o <<".">> \o Digits(v.t % 10)

\* sep.join(parts)
RECURSIVE Join(_, _)
Join(sep, parts) ==
    IF parts = <<>> THEN <<>>
    ELSE IF Len(parts) = 1 THEN parts[1]
    ELSE parts[1] \o sep \o Join(sep, Tail(parts))

\* s.replace(old, new): every occurrence of old, found left to right
\* without overlap, becomes new.
RECURSIVE Replace(_, _, _)
Replace(s, old, new) ==
    IF Len(s) < Len(old) THEN s
    ELSE IF SubSeq(s, 1, Len(old)) = old
         THEN new \o Replace(SubSeq(s, Len(old) + 1, Len(s)), old, new)
         ELSE <<Head(s)>> \o Replace(Tail(s), old, new)

\* The order in which sympy prints symbols and factors: by name.
NameOrder == <<N_a, N_b, N_k, N_rest, N_x, N_x_1>>

\* The monomials of e as sympy orders the terms of a sum: by the exponent
\* vectors, greatest first.
Before(m1, m2) ==
    \E i \in 1..Len(NameOrder) :
        /\ m1.p[NameOrder[i]] > m2.p[NameOrder[i]]
        /\ \A j \in 1..(i - 1) : m1.p[NameOrder[j]] = m2.p[NameOrder[j]]

RECURSIVE OrderedTerms(_)
OrderedTerms(e) ==
    IF e = {} THEN <<>>
    ELSE LET m == CHOOSE k \in e : \A o \in e \ {k} : Before(k, o)
         IN  <<m>> \o OrderedTerms(e \ {m})

\* sym.latex(Symbol(name)): a name with "_" prints its tail as a subscript.
LatexSymbol(name) ==
    LET parts == Split(name, "_")
    IN  IF Len(parts) = 1 THEN name
        ELSE parts[1] \o <<"_{">> \o Join(<<"_">>, Tail(parts)) \o <<"}">>

EndsWithDigit(s) ==
    \E i \in 1..Len(s) :
        /\ \E d \in 1..10 : s[i] = DigitTokens[d]
        /\ \A j \in (i + 1)..Len(s) : s[j] = "}"

StartsWithDigit(s) == s # <<>> /\ \E d \in 1..10 : s[1] = DigitTokens[d]

\* sympy's product printer puts the factors side by side, with \cdot
\* between two of them only where a digit would otherwise meet a digit.
Separator(left, right) ==
    IF EndsWithDigit(left) /\ StartsWithDigit(right)
    THEN <<" \\cdot ">> ELSE <<" ">>

\* A piece of text and the mapping key whose number it prints (<<>> for
\* text that prints no entry of the mapping).
Seg(text, key) == [text |-> text, key |-> key]

\* The text of a sequence of pieces.
RECURSIVE Flat(_)
Flat(segs) == IF segs = <<>> THEN <<>> ELSE Head(segs).text \o Flat(Tail(segs))

\* sympy's product printer over parts that are sequences of pieces.
RECURSIVE ProductSegs(_)
ProductSegs(parts) ==
    IF Len(parts) = 1 THEN parts[1]
    ELSE parts[1]
         \o <<Seg(Separator(Flat(parts[1]), Flat(parts[2])), <<>>)>>
         \o ProductSegs(Tail(parts))

\* sym.latex(e.subs({key: UnevaluatedExpr(value[0]) ...})): the expression
\* keeps its shape, and each symbol whose name is a key of vals prints as
\* that entry's number.  With vals = <<>> this is sym.latex(e).
LatexSegs(e, vals) ==
    LET base(n)   == IF HasKey(vals, n)
                     THEN Seg(PyStr(DictGet(vals, n)[1]), n)
                     ELSE Seg(LatexSymbol(n), <<>>)
        factor(m, n) == <<base(n)>>
                        \o (IF m.p[n] > 1
                            THEN <<Seg(<<"^{">> \o Digits(m.p[n]) \o <<"}">>, <<>>)>>
                            ELSE <<>>)
        held(m)   == SelectSeq(NameOrder, LAMBDA n : m.p[n] > 0)
        parts(m)  == (IF Abs(m.c) # 1 \/ held(m) = <<>>
                      THEN <<<<Seg(Digits(Abs(m.c)), <<>>)>>>> ELSE <<>>)
                     \o [i \in 1..Len(held(m)) |-> factor(m, held(m)[i])]
        terms     == OrderedTerms(e)
        RECURSIVE Sum(_)
        Sum(i)    ==
            IF i = 1
            THEN (IF terms[1].c < 0 THEN <<Seg(<<"- ">>, <<>>)>> ELSE <<>>)
                 \o ProductSegs(parts(terms[1]))
            ELSE Sum(i - 1)
                 \o <<Seg(IF terms[i].c < 0 THEN <<" - ">> ELSE <<" + ">>, <<>>)>>
                 \o ProductSegs(parts(terms[i]))
    IN  IF e = {} THEN <<Seg(<<"0">>, <<>>)>> ELSE Sum(Len(terms))

LatexSubs(e, vals) == Flat(LatexSegs(e, vals))

\* str(e): sympy's plain printer, "3*a*b**2" and "b**3 + 1".
StrExpr(e) ==
    LET factor(m, n) == n \o (IF m.p[n] > 1
                              THEN <<"**">> \o Digits(m.p[n]) ELSE <<>>)
        held(m)   == SelectSeq(NameOrder, LAMBDA n : m.p[n] > 0)
        parts(m)  == (IF Abs(m.c) # 1 \/ held(m) = <<>>
                      THEN <<Digits(Abs(m.c))>> ELSE <<>>)
                     \o [i \in 1..Len(held(m)) |-> factor(m, held(m)[i])]
        terms     == OrderedTerms(e)
        RECURSIVE Sum(_)
        Sum(i)    ==
            IF i = 1
            THEN (IF terms[1].c < 0 THEN <<"-">> ELSE <<>>)
                 \o Join(<<"*">>, parts(terms[1]))
            ELSE Sum(i - 1)
                 \o (IF terms[i].c < 0 THEN <<" - ">> ELSE <<" + ">>)
                 \o Join(<<"*">>, parts(terms[i]))
    IN  IF e = {} THEN <<"0">> ELSE Sum(Len(terms))

\* Error.substitute(values): per variable, in declaration order,
\* f"{values['delta_'+name][0]} \\cdot \\left|{latex}\\right|", joined by
\* " + ".  The first variable whose uncertainty entry is absent raises.
SubstituteSegs(derivs, names, vals) ==
    LET piece(i)  == <<Seg(PyStr(DictGet(vals, DeltaName(names[i]))[1]),
                           DeltaName(names[i])),
                       Seg(<<" \\cdot ", "\\left|">>, <<>>)>>
                     \o LatexSegs(DictGet(derivs, names[i]), vals)
                     \o <<Seg(<<"\\right|">>, <<>>)>>
        RECURSIVE Joined(_)
        Joined(i) == IF i = 1 THEN piece(1)
                     ELSE Joined(i - 1) \o <<Seg(<<" + ">>, <<>>)>> \o piece(i)
    IN  IF names = <<>> THEN <<>> ELSE Joined(Len(names))

SubstituteOf(derivs, names, vals) ==
    LET n == Len(names)
        raises(i) == ~HasKey(vals, DeltaName(names[i]))
    IN  IF \E i \in 1..n : raises(i)
        THEN KeyError(DeltaName(names[CHOOSE i \in 1..n :
                          raises(i) /\ \A j \in 1..(i - 1) : ~raises(j)]))
        ELSE Text(Flat(SubstituteSegs(derivs, names, vals)))

\* "\\SI{" + number + "}{" + unit + "}"
SI(number, unit) == <<"\\SI{">> \o number \o <<"}{">> \o unit \o <<"}">>

\* The pass without its zero test.
AnnotateValueNoSkip(s, value) ==
    IF IsWhole(value[1])
    THEN Replace(s, PyStr(value[1]), SI(IntStr(value[1]), value[2]))
    ELSE Replace(s, PyStr(value[1]), SI(FloatStr(value[1]), value[2]))

\* One pass of the loop of latex_out over values.values(): a zero value is
\* skipped; any other value has every occurrence of its text replaced by
\* its unit annotation.
AnnotateValue(s, value) ==
    IF IsZero(value[1]) THEN s
    ELSE IF IsWhole(value[1])
         THEN Replace(s, PyStr(value[1]), SI(IntStr(value[1]), value[2]))
         ELSE Replace(s, PyStr(value[1]), SI(FloatStr(value[1]), value[2]))

\* The whole loop, over the first i entries of the mapping in its order.
RECURSIVE AnnotateLoop(_, _, _)
AnnotateLoop(s, vals, i) ==
    IF i = 0 THEN s
    ELSE AnnotateValue(AnnotateLoop(s, vals, i - 1), vals[i][2])

\* Error.latex_out(values)
LatexOutOf(derivs, names, errsyms, vals) ==
    LET generic(i) == derivs[i][1] \o <<" \\cdot ", "\\left|">>
                      \o LatexSubs(derivs[i][2], <<>>) \o <<"\\right|">>
        line1 == <<"    &= ", "\\Delta ">>
                 \o Join(<<" + ", "\\Delta ">>, [i \in 1..Len(derivs) |-> generic(i)])
                 \o <<"\\\\", "\n">>
        substituted == SubstituteOf(derivs, names, vals)
        line2 == <<"    &= ">>
                 \o AnnotateLoop(substituted.text, vals, Len(vals))
                 \o <<"\\\\", "\n">>
        result == Aggregate(derivs, errsyms, vals)
        line3 == <<"    &= ">> \o SI(FloatStr(PyFloat(result.num)), <<>>) \o <<"\n">>
    IN  IF substituted.kind # "text" THEN substituted
        ELSE IF result.kind # "number" THEN result
        ELSE IF result.rest # <<>> THEN TypeError
        ELSE Text(<<"\\begin{align*}", "\n">> \o line1 \o line2 \o line3
                  \o <<"\\end{align*}", "\n", "\n">>)

\* Error.__str__()
StrOf(derivs) ==
    Text(Join(<<" + ">>,
              [i \in 1..Len(derivs) |->
                  <<"delta", "_">> \o derivs[i][1]
                  \o <<"*(">> \o StrExpr(derivs[i][2]) \o <<")">>]))

(***************************************************************************)
(* The state.                                                              *)
(***************************************************************************)
VARIABLES
    func,           \* the formula the constructor was called with
    phase,          \* "new", "built" or "failed" (the constructor raised)
    variables,      \* self.variables: the symbols, by name
    error_symbols,  \* self.error_symbols
    f,              \* self.f
    derivatives,    \* self.derivatives
    values,         \* the caller's measurement mapping
    last,           \* the last call on the engine: [op, out]
    memo,           \* a call the caller kept: [op, values, out]
    between,        \* another call was made since the kept one
    made,           \* Table: "new", "built" or "failed" (the constructor raised)
    data,           \* Table.data
    rowlabels,      \* Table.rowlabels
    collabels,      \* Table.collabels
    precision,      \* Table.precision
    table,          \* Table.table
    called,         \* the last call on the table: [op, arg, out]
    old             \* the table before that call, if a transpose or generate

engine == <<variables, error_symbols, f, derivatives>>
tablenator == <<made, data, rowlabels, collabels, precision, table, called, old>>
vars   == <<func, phase, variables, error_symbols, f, derivatives, values,
            last, memo, between, made, data, rowlabels, collabels, precision,
            table, called, old>>

calculator == <<func, phase, variables, error_symbols, f, derivatives, values,
                last, memo, between>>

\* Python's None and a list attribute that was set.
None      == [set |-> FALSE, list |-> <<>>]
Some(l)   == [set |-> TRUE, list |-> l]

\* Table.precision: None, an int or a list of ints.
NoPrecision        == [py |-> "None", n |-> 0, list |-> <<>>]
IntPrecision(n)    == [py |-> "int",  n |-> n, list |-> <<>>]
ListPrecision(l)   == [py |-> "list", n |-> 0, list |-> l]

\* The table as it was before a transpose or generate call, with the
\* call made before that one.
Snapshot(op, d, r, c, t) ==
    [op |-> op, data |-> d, rowlabels |-> r, collabels |-> c, table |-> t]
NoSnapshot == Snapshot("none", <<>>, None, None, <<>>)

\* No formula yet.
NoFormula == [params |-> <<>>, body |-> Num(0)]

\* Nothing kept yet.
NoMemo == [op |-> "none", values |-> <<>>, out |-> NoOut]

Init ==
    /\ func = NoFormula
    /\ phase = "new"
    /\ variables = <<>>
    /\ error_symbols = <<>>
    /\ f = {}
    /\ derivatives = <<>>
    /\ values = <<>>
    /\ last = [op |-> "none", out |-> NoOut]
    /\ memo = NoMemo
    /\ between = FALSE
    /\ made = "new"
    /\ data = <<>>
    /\ rowlabels = None
    /\ collabels = None
    /\ precision = NoPrecision
    /\ table = <<>>
    /\ called = [op |-> "none", arg |-> NoPrecision, out |-> NoOut]
    /\ old = NoSnapshot

\* The loop run over self.f.free_symbols instead of self.variables: a
\* variable that does not occur in the body gets no key.
DerivativesLoopFreeSymbols(expr, names, i) ==
    LET used == SelectSeq(SubSeq(names, 1, i), LAMBDA n : n \in FreeSymbols(expr))
    IN  [j \in 1..Len(used) |-> <<used[j], Diff(expr, used[j])>>]

\* self.derivatives after the loop of __init__ over the variables.
RECURSIVE DerivativesLoop(_, _, _)
DerivativesLoop(expr, names, i) ==
    IF i = 0 THEN <<>>
    ELSE DictSet(DerivativesLoop(expr, names, i - 1), names[i], Diff(expr, names[i]))

\* Error.__init__(func)
Construct(fn) ==
    /\ phase = "new"
    /\ func' = fn
    /\ UNCHANGED <<values, memo, between>>
    /\ UNCHANGED tablenator
    /\ IF CallRaises(fn)
       THEN /\ phase' = "failed"
            /\ last' = [op |-> "__init__", out |-> TypeError]
            /\ UNCHANGED engine
       ELSE LET arg_names == GetFullArgSpecArgs(fn.params) IN
            /\ phase' = "built"
            /\ variables' = arg_names
            /\ error_symbols' = [i \in 1..Len(arg_names) |-> DeltaName(arg_names[i])]
            /\ f' = CallFormula(fn)
            /\ derivatives' = DerivativesLoop(CallFormula(fn), arg_names, Len(arg_names))
            /\ last' = [op |-> "__init__", out |-> NoOut]

\* The caller builds a measurement mapping for the next calls.
BindFrom(choices) ==
    /\ phase = "built"
    /\ \E m \in choices[variables] : values' = m
    /\ last' = [op |-> "bind", out |-> NoOut]
    /\ UNCHANGED <<func, phase, engine, memo, between>>
    /\ UNCHANGED tablenator

Bind == BindFrom(Mappings)

BindCompared == BindFrom(ComparedMappings)

\* The caller keeps what the last result or latex_out call returned or
\* raised, with the mapping it was called on.
Keep ==
    /\ phase = "built"
    /\ memo = NoMemo
    /\ last.op \in {"result", "latex_out"}
    /\ memo' = [op |-> last.op, values |-> values, out |-> last.out]
    /\ UNCHANGED <<func, phase, engine, values, last, between>>
    /\ UNCHANGED tablenator

\* A call that reads the engine and the mapping and writes neither.
Reads(op, out) ==
    /\ phase = "built"
    /\ last' = [op |-> op, out |-> out]
    /\ between' = (between \/ (memo # NoMemo /\ <<op, values>> # <<memo.op, memo.values>>))
    /\ UNCHANGED <<func, phase, engine, values, memo>>
    /\ UNCHANGED tablenator

\* result storing each substituted derivative back into self.derivatives.
ResultCaching ==
    /\ phase = "built"
    /\ last' = [op |-> "result", out |-> Aggregate(derivatives, error_symbols, values)]
    /\ derivatives' = [i \in 1..Len(derivatives) |->
                          <<derivatives[i][1], Subs(derivatives[i][2], values)>>]
    /\ between' = (between \/ (memo # NoMemo /\ <<"result", values>> # <<memo.op, memo.values>>))
    /\ UNCHANGED <<func, phase, variables, error_symbols, f, values, memo>>
    /\ UNCHANGED tablenator

\* result differentiating again on every call and overwriting the map.
ResultRecomputing ==
    /\ phase = "built"
    /\ last' = [op |-> "result", out |-> Aggregate(derivatives, error_symbols, values)]
    /\ derivatives' = [i \in 1..Len(derivatives) |->
                          <<derivatives[i][1], Diff(derivatives[i][2], derivatives[i][1])>>]
    /\ between' = (between \/ (memo # NoMemo /\ <<"result", values>> # <<memo.op, memo.values>>))
    /\ UNCHANGED <<func, phase, variables, error_symbols, f, values, memo>>
    /\ UNCHANGED tablenator

\* Error.result(values)
Result == Reads("result", Aggregate(derivatives, error_symbols, values))

\* Error.substitute(values)
Substitute == Reads("substitute", SubstituteOf(derivatives, variables, values))

\* Error.latex_out(values)
LatexOut ==
    Reads("latex_out", LatexOutOf(derivatives, variables, error_symbols, values))

\* Error.__str__()
Str == Reads("__str__", StrOf(derivatives))

\* Error.__repr__(): return self.__str__()
Repr == Reads("__repr__", StrOf(derivatives))

Next ==
    \/ \E fn \in Formulas : Construct(fn)
    \/ Bind
    \/ Result
    \/ Substitute
    \/ LatexOut
    \/ Str
    \/ Repr

Spec == Init /\ [][Next]_vars

\* The same engine with a caller that keeps one returned value and
\* compares later calls with it.
NextCompared ==
    \/ \E fn \in Formulas : Construct(fn)
    \/ BindCompared
    \/ Result
    \/ Substitute
    \/ LatexOut
    \/ Keep

SpecCompared == Init /\ [][NextCompared]_vars

(***************************************************************************)
(* Properties.                                                             *)
(***************************************************************************)
\* The calls that evaluate a measurement mapping, and all calls.
EvalOps == {"result", "substitute", "latex_out"}
CallOps == EvalOps \cup {"__str__", "__repr__"}

\* The law of the aggregate, stated over the declared names: the sum over
\* the variables, in declaration order, of the uncertainty stored under
\* "delta_" + name times the magnitude of the derivative stored under name,
\* evaluated at the measurement point; in tenths.
LinearSum(derivs, names, vals) ==
    LET term(i) == DictGet(vals, DeltaName(names[i]))[1].t
                   * Abs(Coef(Subs(DictGet(derivs, names[i]), vals), NoPowers))
        RECURSIVE Sum(_)
        Sum(i) == IF i = 0 THEN 0 ELSE Sum(i - 1) + term(i)
    IN  Sum(Len(names))

\* values1 of src/test_error.py
values1 ==
    << <<N_a, <<PyInt(1), Volt>>>>,
       <<N_b, <<PyInt(2), NoUnit>>>>,
       <<DeltaName(N_a), <<PyFloat(4), Volt>>>>,
       <<DeltaName(N_b), <<PyFloat(5), NoUnit>>>> >>

\* C1: for every formula and every complete measurement mapping, result
\* returns the linear sum over the declared variables of uncertainty times
\* the magnitude of the partial derivative at the measurement point; for
\* a + a*b^3 at a = 1, b = 2, delta_a = 0.4, delta_b = 0.5 it returns 9.6.
C1_LinearSum ==
    (phase = "built" /\ last.op = "result" /\ Complete(values, variables)) =>
        /\ last.out = Returned(LinearSum(derivatives, variables, values), <<>>)
        /\ (func = my_function1 /\ values = values1) => last.out.num = 96

\* The part of C1 that the code keeps: the same statement for the formulas
\* none of whose variable names holds "_".
LinearSumForPlainNames ==
    (/\ phase = "built" /\ last.op = "result" /\ Complete(values, variables)
     /\ \A i \in 1..Len(variables) : Len(Split(variables[i], "_")) = 1) =>
        /\ last.out = Returned(LinearSum(derivatives, variables, values), <<>>)
        /\ (func = my_function1 /\ values = values1) => last.out.num = 96

\* The keys a complete mapping for `names` holds and vals lacks.
AbsentKeys(vals, names) ==
    {k \in {names[i] : i \in 1..Len(names)}
             \cup {DeltaName(names[i]) : i \in 1..Len(names)} : ~HasKey(vals, k)}

\* C2: on a mapping that lacks the entry of a declared variable or of its
\* uncertainty, result, latex_out and substitute end in an error naming an
\* absent key and return nothing.
C2_MissingRaises ==
    (phase = "built" /\ last.op \in EvalOps /\ ~Complete(values, variables)) =>
        /\ last.out.kind = "KeyError"
        /\ last.out.key \in AbsentKeys(values, variables)

\* C3: for every declared name n the uncertainty key is "delta_" + n, and
\* the key the aggregate recovers from it to look the derivative up is n.
C3_KeyIsName ==
    phase = "built" =>
        \A i \in 1..Len(variables) :
            /\ error_symbols[i] = DeltaName(variables[i])
            /\ DerivativeKey(error_symbols[i]) = variables[i]

\* C4: constructing the engine from a formula with a variadic, keyword-only
\* or default-valued parameter fails with SignatureError and builds no
\* engine.  (Any error the constructor raises is taken for SignatureError.)
C4_SignatureError ==
    (phase # "new" /\ ~AllPlain(func)) =>
        /\ phase = "failed"
        /\ last.out.kind \in {"SignatureError", "TypeError"}
        /\ derivatives = <<>>

\* The names of the positional parameters of a formula, in order: the
\* variable list of the Signature Resolver.
PositionalNames(fn) ==
    LET positional == SelectSeq(fn.params, LAMBDA par : par.kind \in {"pos", "default"})
    IN  [i \in 1..Len(positional) |-> positional[i].name]

C6_CallsWriteNothing ==
    [][phase = "built" =>
          /\ engine' = engine
          /\ last'.op \in CallOps => values' = values]_vars

\* C6 happens: a latex_out call on a built engine that ended in an error.
C6_Witness ==
    /\ phase = "built"
    /\ derivatives # <<>>
    /\ last.op = "latex_out"
    /\ last.out.kind = "KeyError"

\* C7: a result or latex_out call on the mapping of an earlier call of the
\* same method returns what that call returned, also when calls on other
\* mappings were made in between.
C7_Idempotent ==
    (memo # NoMemo /\ last.op = memo.op /\ values = memo.values) =>
        last.out = memo.out

\* C7 happens: a kept latex_out text, calls on other mappings, and the same
\* call again.
C7_Witness ==
    /\ memo.op = "latex_out"
    /\ memo.out.kind = "text"
    /\ between
    /\ last.op = "latex_out"
    /\ values = memo.values

\* The substituted line of the text latex_out returns, without its
\* "    &= " and its closing "\\".
SubstitutedLine(text) ==
    LET line == Split(text, "\n")[3]
    IN  SubSeq(line, 2, Len(line) - 1)

\* What the loop of latex_out inserts for a value.
Annotation(value) ==
    IF IsWhole(value[1]) THEN SI(IntStr(value[1]), value[2])
    ELSE SI(FloatStr(value[1]), value[2])

\* The substituted line annotated by position: each numeral that prints a
\* nonzero entry of the mapping is wrapped in that entry's annotation, and
\* every other piece of the text is as substitute printed it.
RECURSIVE AnnotatedByPosition(_, _)
AnnotatedByPosition(segs, vals) ==
    IF segs = <<>> THEN <<>>
    ELSE (IF Head(segs).key # <<>> /\ ~IsZero(DictGet(vals, Head(segs).key)[1])
          THEN Annotation(DictGet(vals, Head(segs).key))
          ELSE Head(segs).text)
         \o AnnotatedByPosition(Tail(segs), vals)

\* C8: in the substituted line of latex_out every annotation wraps one
\* whole numeral of a nonzero measurement, with that measurement's unit,
\* and no other digit of the line is rewritten.
C8_NoCorruption ==
    (phase = "built" /\ last.op = "latex_out" /\ last.out.kind = "text") =>
        SubstitutedLine(last.out.text)
            = AnnotatedByPosition(SubstituteSegs(derivatives, variables, values), values)

\* s holds t as a run of consecutive tokens.
Contains(s, t) ==
    \E i \in 1..(Len(s) - Len(t) + 1) : SubSeq(s, i, i + Len(t) - 1) = t

\* The entries of a mapping whose value is zero, and the others.
ZeroEntry(item)    == IsZero(item[2][1])
NonZeroEntry(item) == ~IsZero(item[2][1])

\* C9: latex_out skips the zero-valued entries of the mapping, so the
\* substituted line is what the loop over the other entries alone gives,
\* and it holds no annotation of a zero value.
C9_ZeroUnannotated ==
    (phase = "built" /\ last.op = "latex_out" /\ last.out.kind = "text") =>
        LET others == SelectSeq(values, NonZeroEntry)
            zeros  == SelectSeq(values, ZeroEntry)
            line   == SubstitutedLine(last.out.text)
        IN  /\ line = AnnotateLoop(SubstituteOf(derivatives, variables, values).text,
                                   others, Len(others))
            /\ \A i \in 1..Len(zeros) :
                   /\ ~Contains(line, <<"\\SI{">> \o PyStr(zeros[i][2][1]) \o <<"}{">>)
                   /\ ~Contains(line, <<"\\SI{">> \o IntStr(zeros[i][2][1]) \o <<"}{">>)

\* C9 happens: latex_out returned a text for a mapping with a zero point
\* that the substituted line prints, next to an annotated nonzero one.
C9_Witness ==
    /\ phase = "built"
    /\ last.op = "latex_out"
    /\ last.out.kind = "text"
    /\ \E i \in 1..Len(variables) :
           /\ HasKey(values, variables[i])
           /\ IsZero(DictGet(values, variables[i])[1])
           /\ \E j \in 1..Len(derivatives) : variables[i] \in FreeSymbols(derivatives[j][2])
    /\ Contains(SubstitutedLine(last.out.text), <<"\\SI{">>)

\* The variables of the engine that do not occur in the formula body.
Unused == {i \in 1..Len(variables) : variables[i] \notin BodyNames(func.body)}

\* C10: a declared variable that does not occur in the formula body has
\* derivative 0 in the derivatives map, and result is the sum over the
\* other variables, whatever its uncertainty and the measurement point.
C10_UnusedContributesZero ==
    phase = "built" =>
        /\ \A i \in Unused : DictGet(derivatives, variables[i]) = {}
        /\ (Unused # {} /\ last.op = "result" /\ Complete(values, variables)) =>
               LET used == SelectSeq(variables, LAMBDA n : n \in BodyNames(func.body))
               IN  last.out = Returned(LinearSum(derivatives, used, values), <<>>)

(***************************************************************************)
(* src/tablenator.py: class Table.                                         *)
(*                                                                         *)
(* A table entry is a Python int, a Python float with at most two          *)
(* decimals (h is the value in hundredths) or, once set_precision has      *)
(* formatted it, a Python str (text holds its characters).  data is a      *)
(* list of rows, a row a list of entries.                                  *)
(***************************************************************************)
IntCell(n)   == [py |-> "int",   h |-> 100 * n, text |-> <<>>]
FloatCell(h) == [py |-> "float", h |-> h,       text |-> <<>>]
StrCell(t)   == [py |-> "str",   h |-> 0,       text |-> t]

\* The data of the class docstring, Table(np.array(((1,9.3),(3.01,4.83))))
\* after tolist(), the same with a third column, and lists of other shapes that _set_data accepts: one with more columns than rows,
\* one whose rows differ in length and the empty list.
T_square == << <<IntCell(1), FloatCell(930)>>, <<FloatCell(301), FloatCell(483)>> >>
T_wide   == << <<IntCell(1), FloatCell(930), IntCell(9)>>, <<FloatCell(301), FloatCell(483), IntCell(4)>> >>
T_ragged == << <<IntCell(1), FloatCell(930)>>, <<FloatCell(301)>> >>
T_empty  == << >>

\* Table(np.array((('a', 'b'), ('c', 'd')))) of the constructor's docstring
\* handed over as a list of lists: the entries are str.
T_chars  == << <<StrCell(<<"a">>), StrCell(<<"b">>)>>, <<StrCell(<<"c">>), StrCell(<<"d">>)>> >>

\* What a caller hands to Table(data): a list of lists, or something
\* that is not a list.
AList(rows) == [islist |-> TRUE, rows |-> rows]
NotAList    == [islist |-> FALSE, rows |-> <<>>]
DataInputs  ==
    {AList(T_square), AList(T_wide), AList(T_ragged), AList(T_empty),
     AList(T_chars), NotAList}

\* all(isinstance(val, float) or isinstance(val, int) for val in row),
\* for every row of data
OnlyNumbers(rows) ==
    \A i \in 1..Len(rows) : \A j \in 1..Len(rows[i]) : rows[i][j].py \in {"int", "float"}

\* 10 ** k
RECURSIVE Pow10(_)
Pow10(k) == IF k = 0 THEN 1 ELSE 10 * Pow10(k - 1)

\* round(x, p) for 0 <= p, in hundredths.  No entry of the tables above
\* lies halfway between two neighbours, so the nearest one is unique.
Round(h, p) ==
    IF p >= 2 THEN h
    ELSE LET unit == Pow10(2 - p) IN ((h + unit \div 2) \div unit) * unit

\* The first p decimals of a value in hundredths, zeros after the second.
RECURSIVE Decimals(_, _)
Decimals(h, p) ==
    IF p = 0 THEN <<>>
    ELSE IF p = 1 THEN <<DigitTokens[((h % 100) \div 10) + 1]>>
    ELSE IF p = 2 THEN <<DigitTokens[((h % 100) \div 10) + 1], DigitTokens[(h % 10) + 1]>>
    ELSE Decimals(h, p - 1) \o <<"0">>

\* "%.*f" % (p, round(x, p)) for a number x >= 0 and p >= 0
Format(x, p) ==
    LET r == Round(x.h, p)
    IN  StrCell(Digits(r \div 100) \o (IF p = 0 THEN <<>> ELSE <<".">> \o Decimals(r, p)))

\* str(x) for an entry: "1" for the int 1, "9.3" and "3.01" for the floats,
\* the text itself for a str.
CellStr(x) ==
    IF x.py = "str" THEN x.text
    ELSE IF x.py = "int" THEN Digits(x.h \div 100)
    ELSE Digits(x.h \div 100) \o <<".">>
         \o (IF x.h % 10 = 0 THEN Decimals(x.h, 1) ELSE Decimals(x.h, 2))

\* Exceptions of the table's methods.
ValueError == [kind |-> "ValueError", num |-> 0, rest |-> <<>>, key |-> <<>>, text |-> <<>>]
IndexError == [kind |-> "IndexError", num |-> 0, rest |-> <<>>, key |-> <<>>, text |-> <<>>]

\* if self.rowlabels: / if self.collabels: a list that is set and not empty
Truthy(l) == l.set /\ l.list # <<>>

\* Table(data): __init__ sets the defaults and calls _set_data, which
\* accepts every list of lists of ints and floats, whatever the lengths of
\* the rows, and raises TypeError otherwise.
NewTable(input) ==
    /\ made = "new"
    /\ UNCHANGED <<calculator, old, rowlabels, collabels, precision, table>>
    /\ IF input.islist /\ OnlyNumbers(input.rows)
       THEN /\ made' = "built"
            /\ data' = input.rows
            /\ called' = [op |-> "__init__", arg |-> NoPrecision, out |-> NoOut]
       ELSE /\ made' = "failed"
            /\ called' = [op |-> "__init__", arg |-> NoPrecision, out |-> TypeError]
            /\ UNCHANGED data

\* A call on the table: what is kept of it and of the state before it.
CallWith(op, arg, out) ==
    /\ made = "built"
    /\ called' = [op |-> op, arg |-> arg, out |-> out]
    /\ old' = IF op \in {"transpose", "generate"}
              THEN Snapshot(called.op, data, rowlabels, collabels, table)
              ELSE NoSnapshot
    /\ UNCHANGED <<calculator, made>>

Call(op, out) == CallWith(op, NoPrecision, out)

\* The label lists a caller passes: fresh lists of two or three strings,
\* a list holding something that is not a str, and something
\* that is not a list.
Labels(l)      == [islist |-> TRUE,  strs |-> TRUE,  list |-> l]
NotStrings     == [islist |-> TRUE,  strs |-> FALSE, list |-> <<>>]
NotLabels      == [islist |-> FALSE, strs |-> FALSE, list |-> <<>>]
RowLabelInputs ==
    {Labels(SubSeq(<<"r1", "r2", "r3">>, 1, n)) : n \in 2..3} \cup {NotStrings, NotLabels}
ColLabelInputs ==
    {Labels(SubSeq(<<"c1", "c2", "c3">>, 1, n)) : n \in 2..3} \cup {NotStrings, NotLabels}

\* Table.set_rowlabels(labels)
SetRowlabels(labels) ==
    IF ~labels.islist \/ ~labels.strs
    THEN Call("set_rowlabels", TypeError)
         /\ UNCHANGED <<data, rowlabels, collabels, precision, table>>
    ELSE IF Len(labels.list) = Len(data)
    THEN Call("set_rowlabels", NoOut)
         /\ rowlabels' = Some(labels.list)
         /\ UNCHANGED <<data, collabels, precision, table>>
    ELSE Call("set_rowlabels", ValueError)
         /\ UNCHANGED <<data, rowlabels, collabels, precision, table>>

\* Table.set_collabels(labels): len(self.data[0]) raises IndexError on
\* empty data.
SetCollabels(labels) ==
    IF ~labels.islist \/ ~labels.strs
    THEN Call("set_collabels", TypeError)
         /\ UNCHANGED <<data, rowlabels, collabels, precision, table>>
    ELSE IF data = <<>>
    THEN Call("set_collabels", IndexError)
         /\ UNCHANGED <<data, rowlabels, collabels, precision, table>>
    ELSE IF Len(labels.list) = Len(data[1])
    THEN Call("set_collabels", NoOut)
         /\ collabels' = Some(labels.list)
         /\ UNCHANGED <<data, rowlabels, precision, table>>
    ELSE Call("set_collabels", ValueError)
         /\ UNCHANGED <<data, rowlabels, collabels, precision, table>>

\* A bool argument, or an argument that is not a bool.
Bool(b)    == [isbool |-> TRUE, value |-> b]
NotABool   == [isbool |-> FALSE, value |-> FALSE]
BoolInputs == {Bool(TRUE), Bool(FALSE), NotABool}

\* The precisions a caller passes: an int, a list of two or three ints,
\* and something that is neither.
NotPrecision    == [py |-> "other", n |-> 0, list |-> <<>>]
PrecisionInputs ==
    {IntPrecision(1), ListPrecision(<<1, 2>>), ListPrecision(<<2, 1, 0>>),
     NotPrecision}

\* for i, row in enumerate(self.data):
\*     self.data[i] = ["%.*f" % (p[i], round(x, p[i])) for x in row]
\* after i rows: round raises TypeError on an entry that is a str, and the
\* rows before that one stay formatted.
RECURSIVE FormatLoop(_, _, _)
FormatLoop(rows, precs, i) ==
    IF i = 0 THEN [rows |-> rows, raised |-> FALSE]
    ELSE LET done == FormatLoop(rows, precs, i - 1) IN
         IF done.raised THEN done
         ELSE IF \E j \in 1..Len(rows[i]) : rows[i][j].py = "str"
         THEN [rows |-> done.rows, raised |-> TRUE]
         ELSE [rows   |-> [done.rows EXCEPT
                              ![i] = [j \in 1..Len(rows[i]) |-> Format(rows[i][j], precs[i])]],
               raised |-> FALSE]

\* Table.set_precision(precision): an int is used for every row; a list
\* is compared with len(self.data) and indexed by the row's number i.
SetPrecision(p) ==
    IF p.py = "int"
    THEN LET loop == FormatLoop(data, [i \in 1..Len(data) |-> p.n], Len(data)) IN
         /\ CallWith("set_precision", p, IF loop.raised THEN TypeError ELSE NoOut)
         /\ precision' = p
         /\ data' = loop.rows
         /\ UNCHANGED <<rowlabels, collabels, table>>
    ELSE IF p.py = "list"
    THEN IF Len(p.list) # Len(data)
         THEN /\ CallWith("set_precision", p, ValueError)
              /\ UNCHANGED <<data, rowlabels, collabels, precision, table>>
         ELSE LET loop == FormatLoop(data, p.list, Len(data)) IN
              /\ CallWith("set_precision", p, IF loop.raised THEN TypeError ELSE NoOut)
              /\ precision' = p
              /\ data' = loop.rows
              /\ UNCHANGED <<rowlabels, collabels, table>>
    ELSE /\ CallWith("set_precision", p, TypeError)
         /\ UNCHANGED <<data, rowlabels, collabels, precision, table>>

\* zip( *rows ): one tuple per position that every row has.
Min(S) == CHOOSE n \in S : \A m \in S : n <= m

Zip(rows) ==
    IF rows = <<>> THEN <<>>
    ELSE LET shortest == Min({Len(rows[i]) : i \in 1..Len(rows)})
         IN  [j \in 1..shortest |-> [i \in 1..Len(rows) |-> rows[i][j]]]

\* Table.transpose(change_labels)
Transpose(change_labels) ==
    IF ~change_labels.isbool
    THEN /\ CallWith("transpose", change_labels, TypeError)
         /\ UNCHANGED <<data, rowlabels, collabels, precision, table>>
    ELSE /\ CallWith("transpose", change_labels, NoOut)
         /\ IF change_labels.value
            THEN rowlabels' = collabels /\ collabels' = rowlabels
            ELSE UNCHANGED <<rowlabels, collabels>>
         /\ data' = Zip(data)
         /\ UNCHANGED <<precision, table>>

\* The attributes that only their own setters change, at the values
\* __init__ gives them.
caption  == None
label    == None
booktabs == TRUE
decimal  == "{,}"
position == "htbp"

\* The longest header generate is asked to extend.
MaxHeader == 3

\* Table._toprule, Table._midrule and Table._bottomrule
Toprule(bt)    == IF bt THEN <<"\t\\toprule\n\t">> ELSE <<"\t\\hline\n\t">>
Midrule(bt)    == IF bt THEN <<"\t\\midrule\n\t">> ELSE <<"\t\\hline\n\t">>
Bottomrule(bt) == IF bt THEN <<"\\bottomrule\n\t">> ELSE <<"\\hline\n\t">>

\* " & ".join(x.replace('.', self.decimal) for x in row), row = [str(x) ...]
RowText(row) ==
    Join(<<" & ">>, [j \in 1..Len(row) |-> Replace(CellStr(row[j]), <<".">>, <<decimal>>)])

\* The loop of generate over the rows, after i rows: self.rowlabels[i]
\* raises IndexError when there are fewer labels than rows.
RECURSIVE RowLoop(_, _, _)
RowLoop(rows, rlabels, i) ==
    IF i = 0 THEN [text |-> <<>>, raised |-> FALSE]
    ELSE LET done == RowLoop(rows, rlabels, i - 1) IN
         IF done.raised THEN done
         ELSE IF Truthy(rlabels) /\ i > Len(rlabels.list)
         THEN [text |-> done.text, raised |-> TRUE]
         ELSE [text   |-> done.text
                          \o (IF Truthy(rlabels) THEN <<rlabels.list[i], " & ">> ELSE <<>>)
                          \o RowText(rows[i]) \o <<" \\\\\n\t">>,
               raised |-> FALSE]

\* self.collabels after generate: self.collabels.insert(0, '') when both
\* rowlabels and collabels are set and not empty.
Inserted(rlabels, clabels) ==
    IF Truthy(rlabels) /\ Truthy(clabels) THEN Some(<<"">> \o clabels.list) ELSE clabels

\* The text generate has put into self.table when it returns or raises.
GenerateText(rows, rlabels, clabels, bt) ==
    LET header == Inserted(rlabels, clabels)
        begin  == <<"\\begin{table}", "[", position, "]\n", "\t\\centering\n">>
                  \o (IF caption # None THEN <<"\t\\caption{">> \o caption.list \o <<"}\n">> ELSE <<>>)
                  \o <<"\t\\begin{tabular}{">>
                  \o (IF Truthy(rlabels) THEN <<"l|">> ELSE <<>>)
        loop   == RowLoop(rows, rlabels, Len(rows))
    IN  IF rows = <<>> THEN [text |-> begin, raised |-> TRUE]
        ELSE LET top == begin \o [j \in 1..Len(rows[1]) |-> "c"] \o <<"}\n">>
                        \o Toprule(bt)
                        \o (IF Truthy(header)
                            THEN Join(<<" & ">>, [j \in 1..Len(header.list) |-> <<header.list[j]>>])
                                 \o <<" \\\\\n">> \o Midrule(bt)
                            ELSE <<>>)
             IN  IF loop.raised THEN [text |-> top \o loop.text, raised |-> TRUE]
                 ELSE [text   |-> top \o loop.text \o Bottomrule(bt) \o <<"\\end{tabular}\n">>
                                  \o (IF label # None
                                      THEN <<"\t\\label{tab:">> \o label.list \o <<"}\n">>
                                      ELSE <<>>)
                                  \o <<"\\end{table}">>,
                       raised |-> FALSE]

\* Table.generate()
Generate ==
    LET gen == GenerateText(data, rowlabels, collabels, booktabs) IN
    /\ collabels.set => Len(collabels.list) < MaxHeader
    /\ Call("generate", IF gen.raised THEN IndexError ELSE NoOut)
    /\ table' = gen.text
    /\ collabels' = Inserted(rowlabels, collabels)
    /\ UNCHANGED <<data, rowlabels, precision>>

NextTable ==
    \/ \E input \in DataInputs : NewTable(input)
    \/ \E labels \in RowLabelInputs : SetRowlabels(labels)
    \/ \E labels \in ColLabelInputs : SetCollabels(labels)
    \/ \E p \in PrecisionInputs : SetPrecision(p)
    \/ \E change_labels \in BoolInputs : Transpose(change_labels)
    \/ Generate

SpecTable == Init /\ [][NextTable]_vars

(***************************************************************************)
(* Properties of the table.                                                *)
(***************************************************************************)
\* The number of columns of the data: len(self.data[0]), as set_collabels
\* and generate count them.
Columns(rows) == IF rows = <<>> THEN 0 ELSE Len(rows[1])

\* Every row has that many entries.
Rectangular(rows) == \A i \in 1..Len(rows) : Len(rows[i]) = Columns(rows)

\* The number of decimals a formatted entry shows.
DecimalsShown(x) ==
    IF \E k \in 1..Len(x.text) : x.text[k] = "."
    THEN Len(x.text) - (CHOOSE k \in 1..Len(x.text) : x.text[k] = ".")
    ELSE 0

\* C11: on a table whose rows are equally long, square or not,
\* set_precision called with a list of integers raises ValueError exactly
\* when the list's length differs from the number of columns of the data,
\* and when it returns every entry of column j is a text formatted with
\* precision[j] decimals.
C11_PrecisionPerColumn ==
    (made = "built" /\ called.op = "set_precision" /\ called.arg.py = "list"
        /\ Rectangular(data)) =>
        /\ (called.out = ValueError) <=> (Len(called.arg.list) # Columns(data))
        /\ called.out = NoOut =>
               \A i \in 1..Len(data) : \A j \in 1..Len(data[i]) :
                   /\ data[i][j].py = "str"
                   /\ j <= Len(called.arg.list)
                   /\ DecimalsShown(data[i][j]) = called.arg.list[j]

\* What set_precision does with a list: the length is compared with the
\* number of rows, and every entry of row i shows precision[i] decimals.
PrecisionPerRow ==
    (made = "built" /\ called.op = "set_precision" /\ called.arg.py = "list") =>
        /\ (called.out = ValueError) <=> (Len(called.arg.list) # Len(data))
        /\ called.out = NoOut =>
               \A i \in 1..Len(data) : \A j \in 1..Len(data[i]) :
                   /\ data[i][j].py = "str"
                   /\ DecimalsShown(data[i][j]) = called.arg.list[i]

\* The length of the longest row: the number of columns that hold an entry.
Widest(rows) ==
    IF rows = <<>> THEN 0
    ELSE CHOOSE n \in {Len(rows[i]) : i \in 1..Len(rows)} :
             \A i \in 1..Len(rows) : Len(rows[i]) <= n

\* C12: transpose exchanges rows and columns of every data the constructor
\* accepts: the new data has one row per old column and every old entry
\* [i][j] is the new entry [j][i]; the labels are swapped when
\* change_labels is True and kept when it is False; a change_labels that
\* is not a bool raises TypeError and leaves data and labels unchanged.
C12_TransposeExchanges ==
    (made = "built" /\ called.op = "transpose") =>
        IF called.arg.isbool
        THEN /\ called.out = NoOut
             /\ Len(data) = Widest(old.data)
             /\ \A i \in 1..Len(old.data) : \A j \in 1..Len(old.data[i]) :
                    /\ j <= Len(data)
                    /\ i <= Len(data[j])
                    /\ data[j][i] = old.data[i][j]
             /\ IF called.arg.value
                THEN rowlabels = old.collabels /\ collabels = old.rowlabels
                ELSE rowlabels = old.rowlabels /\ collabels = old.collabels
        ELSE /\ called.out = TypeError
             /\ data = old.data
             /\ rowlabels = old.rowlabels
             /\ collabels = old.collabels

\* What transpose does on data whose rows are equally long.
TransposeOfRectangular ==
    (made = "built" /\ called.op = "transpose" /\ Rectangular(old.data)) =>
        C12_TransposeExchanges

\* C13: after any sequence of calls on the table, rowlabels, when set, has
\* one label per row of data and collabels, when set, one label per
\* column, and generate does not raise IndexError on a table that has data
\* (stated for data whose rows are equally long, before and after the
\* last call).
C13_LabelsFitData ==
    (made = "built" /\ Rectangular(data) /\ Rectangular(old.data)) =>
        /\ rowlabels.set => Len(rowlabels.list) = Len(data)
        /\ collabels.set => Len(collabels.list) = Columns(data)
        /\ (called.op = "generate" /\ data # <<>>) => called.out = NoOut

\* What the setters alone guarantee: right after set_rowlabels or
\* set_collabels returns, the list it stored fits the data.
LabelsFitWhenSet ==
    /\ (made = "built" /\ called.op = "set_rowlabels" /\ called.out = NoOut) =>
           rowlabels.set /\ Len(rowlabels.list) = Len(data)
    /\ (made = "built" /\ called.op = "set_collabels" /\ called.out = NoOut) =>
           collabels.set /\ Len(collabels.list) = Columns(data)

\* C14: generate changes only the table attribute, and called again with
\* no other call in between it yields the same table: after a generate
\* that returned (on data whose rows are equally long), data, rowlabels
\* and collabels are as before the call, and if the call before it was a
\* generate too, table is as before.
C14_GenerateIdempotent ==
    (made = "built" /\ called.op = "generate" /\ called.out = NoOut
        /\ Rectangular(data)) =>
        /\ data = old.data
        /\ rowlabels = old.rowlabels
        /\ collabels = old.collabels
        /\ old.op = "generate" => table = old.table

\* What generate keeps when row and column labels are not both set.
GenerateWithoutBothLabels ==
    (made = "built" /\ called.op = "generate" /\ called.out = NoOut
        /\ ~(Truthy(old.rowlabels) /\ Truthy(old.collabels))) =>
        C14_GenerateIdempotent

=============================================================================
